---- MODULE Spec2Model ----
(***************************************************************************)
(* Model of the StellarEthEscrow Soroban contract                          *)
(* (contracts-stellar/stellar-eth-escrow/src/lib.rs): a hash-time-locked   *)
(* escrow with a registry (Map<Bytes, Escrow>) and a counter kept in       *)
(* instance storage.  Every public function is one action; the host runs   *)
(* each invocation to completion, and an invocation that traps             *)
(* (require_auth failing) or returns Err leaves the storage as it was.     *)
(*                                                                         *)
(* Bytes values are sequences of byte values.  sha256 is modelled as an    *)
(* injective function on Bytes (digest = length byte followed by the       *)
(* data), so two different inputs never share a digest.                    *)
(***************************************************************************)
EXTENDS Integers, Sequences, FiniteSets, TLC

VARIABLES storage, ledger, result, issued, events

vars == <<storage, ledger, result, issued, events>>

-----------------------------------------------------------------------------
(* Bounds of the model *)

\* the ledger timestamp stays within 0..MaxTime
MaxTime == 1

\* largest step of the ledger timestamp at one ledger close
MaxStep == 1

\* number of successful create_escrow calls explored in one behaviour
MaxCreates == 2

-----------------------------------------------------------------------------
(* Input domains *)

Makers == {"alice", "bob"}

Assets == {"usdc"}

Resolvers == {"bob", "carol"}

Identities == Makers \cup Resolvers

\* the authorizations a call may carry: that of one identity
AuthSets == {{a} : a \in Identities}

\* amounts create_escrow rejects
BadAmounts == {-1, 0}

\* candidate preimages offered to complete_escrow
Secrets == {<<11>>, <<22>>}

\* an id no create_escrow call ever returned
UnknownId == <<0>>

-----------------------------------------------------------------------------
(* Storage keys, status codes, Option and Map *)

ESCROWS == "ESCROWS"

COUNTER == "COUNTER"

StatusPending == 0

StatusLocked == 1

StatusCompleted == 2

StatusRefunded == 3

\* Option<Bytes>: None is the empty sequence, Some(b) the one-element sequence
None == <<>>

Some(b) == <<b>>

is_some(o) == Len(o) = 1

\* Map::new
MapNew == [k \in {} |-> 0]

\* Map::set
MapSet(m, key, value) ==
    [k \in DOMAIN m \cup {key} |-> IF k = key THEN value ELSE m[k]]

\* Map::contains_key
contains_key(m, key) == key \in DOMAIN m

\* mutant: a missing counter is read as 1
storage_get_counter_one(st, key, default) ==
    IF key \in DOMAIN st THEN st[key] ELSE IF key = "COUNTER" THEN 1 ELSE default

\* env.storage().instance().get(key).unwrap_or(default)
storage_get(st, key, default) ==
    IF key \in DOMAIN st THEN st[key] ELSE default

\* env.storage().instance().set(key, value)
storage_set(st, key, value) ==
    [k \in DOMAIN st \cup {key} |-> IF k = key THEN value ELSE st[k]]

\* the registry and the counter as the contract reads them
Registry == storage_get(storage, ESCROWS, MapNew)

Counter == storage_get(storage, COUNTER, 0)

\* Address::require_auth: auths is the set of identities that authorized the call
require_auth(address, auths) == address \in auths

-----------------------------------------------------------------------------
(* Hashing and the id generator *)

\* env.crypto().sha256(data), taken as injective
sha256(data) == <<Len(data)>> \o data

compute_hash_lock(secret) == sha256(secret)

\* (v >> (8 * n)) for n bytes: arithmetic shift, one byte at a time
RECURSIVE shr_bytes(_, _)
shr_bytes(v, n) == IF n = 0 THEN v ELSE shr_bytes(v \div 256, n - 1)

\* the big-endian bytes (v >> 8*(width-1)) as u8, ..., v as u8
be_bytes(v, width) == [i \in 1..width |-> shr_bytes(v, width - i) % 256]

\* data_bytes of generate_escrow_id
escrow_id_data(timestamp, sequence, counter, amount) ==
    be_bytes(timestamp, 8) \o be_bytes(sequence, 4)
        \o be_bytes(counter, 8) \o be_bytes(amount, 16)

\* mutant: the counter advances by two
generate_escrow_id_skip(st, led, maker, amount, asset) ==
    LET counter == storage_get(st, COUNTER, 0) + 2
    IN  [storage |-> storage_set(st, COUNTER, counter),
         id |-> sha256(escrow_id_data(led.timestamp, led.sequence, counter, amount))]

\* mutant: the counter is hashed before it is incremented
generate_escrow_id_stale(st, led, maker, amount, asset) ==
    LET counter == storage_get(st, COUNTER, 0)
    IN  [storage |-> storage_set(st, COUNTER, counter + 1),
         id |-> sha256(escrow_id_data(led.timestamp, led.sequence, counter, amount))]

\* generate_escrow_id: increments and stores the counter, then hashes
generate_escrow_id(st, led, maker, amount, asset) ==
    LET counter == storage_get(st, COUNTER, 0) + 1
    IN  [storage |-> storage_set(st, COUNTER, counter),
         id |-> sha256(escrow_id_data(led.timestamp, led.sequence, counter, amount))]

\* arguments offered to create_escrow: an escrow locked by the digest of the
\* first candidate secret, the same with an earlier expiry, one of another maker
\* and amount locked by the digest of the second secret, one whose hash lock is
\* the digest of nothing, and the first with each rejected amount
GoodCreateArgs ==
    {[maker |-> "alice", amount |-> 1, asset |-> "usdc",
      hash_lock |-> compute_hash_lock(<<11>>),
      time_locks |-> [withdrawal |-> 1, refund |-> 9]],
     [maker |-> "alice", amount |-> 1, asset |-> "usdc",
      hash_lock |-> compute_hash_lock(<<11>>),
      time_locks |-> [withdrawal |-> 0, refund |-> 9]],
     [maker |-> "bob", amount |-> 2, asset |-> "usdc",
      hash_lock |-> compute_hash_lock(<<22>>),
      time_locks |-> [withdrawal |-> 1, refund |-> 1]],
     [maker |-> "bob", amount |-> 1, asset |-> "usdc",
      hash_lock |-> <<7, 7>>,
      time_locks |-> [withdrawal |-> 0, refund |-> 1]]}

CreateArgs ==
    GoodCreateArgs
        \cup {[maker |-> "alice", amount |-> bad, asset |-> "usdc",
               hash_lock |-> compute_hash_lock(<<11>>),
               time_locks |-> [withdrawal |-> 1, refund |-> 9]] : bad \in BadAmounts}

-----------------------------------------------------------------------------
(* Outcome of one invocation: the value returned, the storage left and the  *)
(* events published                                                        *)

Ok(st) == [res |-> "Ok", storage |-> st, events |-> <<>>]

\* returning Err(e): the host discards the invocation's storage writes
Err(st, e) == [res |-> e, storage |-> st, events |-> <<>>]

\* require_auth failing traps the invocation
AuthAbort(st) == [res |-> "AuthAbort", storage |-> st, events |-> <<>>]

\* env.events().publish((topic,), data), called after the last storage write
\* of an invocation that goes on to return Ok
Published(out, topic, data) ==
    [out EXCEPT !.events = Append(@, [topic |-> topic, data |-> data])]

-----------------------------------------------------------------------------
(* create_escrow *)

\* mutant: the refund field of TimeLocks is stored as the time lock
new_escrow_refund_lock(escrow_id, maker, amount, asset, hash_lock, time_locks, led) ==
    [id |-> escrow_id,
     maker |-> maker,
     amount |-> amount,
     asset |-> asset,
     hash_lock |-> hash_lock,
     time_lock |-> time_locks.refund,
     status |-> StatusPending,
     secret |-> None,
     created_at |-> led.timestamp]

\* mutant: the later of the two time locks is stored
new_escrow_latest_lock(escrow_id, maker, amount, asset, hash_lock, time_locks, led) ==
    [id |-> escrow_id,
     maker |-> maker,
     amount |-> amount,
     asset |-> asset,
     hash_lock |-> hash_lock,
     time_lock |-> IF time_locks.refund > time_locks.withdrawal
                   THEN time_locks.refund ELSE time_locks.withdrawal,
     status |-> StatusPending,
     secret |-> None,
     created_at |-> led.timestamp]

\* the Escrow record built by create_escrow
new_escrow(escrow_id, maker, amount, asset, hash_lock, time_locks, led) ==
    [id |-> escrow_id,
     maker |-> maker,
     amount |-> amount,
     asset |-> asset,
     hash_lock |-> hash_lock,
     time_lock |-> time_locks.withdrawal,
     status |-> StatusPending,
     secret |-> None,
     created_at |-> led.timestamp]

\* mutant: the amount is validated after the id was generated, and the error
\* is returned with the counter already stored
create_escrow_outcome_late_validation(st, led, maker, amount, asset, hash_lock, time_locks, auths) ==
    IF ~require_auth(maker, auths) THEN AuthAbort(st) @@ [id |-> None]
    ELSE LET gen == generate_escrow_id(st, led, maker, amount, asset)
             escrow_id == gen.id
             escrows == storage_get(gen.storage, ESCROWS, MapNew)
             escrow == new_escrow(escrow_id, maker, amount, asset, hash_lock,
                                  time_locks, led)
         IN  IF amount <= 0
             THEN [res |-> "InvalidAmount", storage |-> gen.storage, events |-> <<>>,
                   id |-> None]
             ELSE Published(Ok(storage_set(gen.storage, ESCROWS,
                                 MapSet(escrows, escrow_id, escrow))),
                       "created", <<escrow_id, maker, amount, asset>>)
                  @@ [id |-> Some(escrow_id)]

\* the outcome of create_escrow, with the id it returns on success
create_escrow_outcome(st, led, maker, amount, asset, hash_lock, time_locks, auths) ==
    IF amount <= 0 THEN Err(st, "InvalidAmount") @@ [id |-> None]
    ELSE IF ~require_auth(maker, auths) THEN AuthAbort(st) @@ [id |-> None]
    ELSE LET gen == generate_escrow_id(st, led, maker, amount, asset)
             escrow_id == gen.id
             escrows == storage_get(gen.storage, ESCROWS, MapNew)
             escrow == new_escrow(escrow_id, maker, amount, asset, hash_lock,
                                  time_locks, led)
         IN  IF contains_key(escrows, escrow_id)
             THEN Err(st, "EscrowExists") @@ [id |-> None]
             ELSE Published(Ok(storage_set(gen.storage, ESCROWS,
                                 MapSet(escrows, escrow_id, escrow))),
                       "created", <<escrow_id, maker, amount, asset>>)
                  @@ [id |-> Some(escrow_id)]

-----------------------------------------------------------------------------
(* lock_escrow *)

\* mutant: lock_escrow rejects only an escrow that is already locked
lock_status_invalid_relock(escrow) == escrow.status = StatusLocked

\* "if escrow.status != 0": the status check of lock_escrow fails
lock_status_invalid(escrow) == escrow.status # StatusPending

\* the record lock_escrow stores
lock_update(escrow) == [escrow EXCEPT !.status = StatusLocked]

\* mutant: the record is looked up before the resolver is authorized
lock_escrow_outcome_lookup_first(st, led, escrow_id, resolver, auths) ==
    LET escrows == storage_get(st, ESCROWS, MapNew)
    IN  IF ~contains_key(escrows, escrow_id) THEN Err(st, "EscrowNotFound")
        ELSE IF ~require_auth(resolver, auths) THEN AuthAbort(st)
        ELSE LET escrow == escrows[escrow_id]
             IN  IF lock_status_invalid(escrow) THEN Err(st, "InvalidStatus")
                 ELSE Published(Ok(storage_set(st, ESCROWS,
                             MapSet(escrows, escrow_id, lock_update(escrow)))),
                       "locked", <<escrow_id, resolver>>)

\* mutant: an escrow past its time lock cannot be locked
lock_escrow_outcome_timelock(st, led, escrow_id, resolver, auths) ==
    IF ~require_auth(resolver, auths) THEN AuthAbort(st)
    ELSE LET escrows == storage_get(st, ESCROWS, MapNew)
         IN  IF ~contains_key(escrows, escrow_id) THEN Err(st, "EscrowNotFound")
             ELSE LET escrow == escrows[escrow_id]
                  IN  IF lock_status_invalid(escrow)
                         \/ led.timestamp > escrow.time_lock
                      THEN Err(st, "InvalidStatus")
                      ELSE Published(Ok(storage_set(st, ESCROWS,
                                  MapSet(escrows, escrow_id, lock_update(escrow)))),
                       "locked", <<escrow_id, resolver>>)

\* mutant: the updated record is stored in a new map instead of the loaded one
lock_escrow_outcome_single_entry(st, led, escrow_id, resolver, auths) ==
    IF ~require_auth(resolver, auths) THEN AuthAbort(st)
    ELSE LET escrows == storage_get(st, ESCROWS, MapNew)
         IN  IF ~contains_key(escrows, escrow_id) THEN Err(st, "EscrowNotFound")
             ELSE LET escrow == escrows[escrow_id]
                  IN  IF lock_status_invalid(escrow) THEN Err(st, "InvalidStatus")
                      ELSE Published(Ok(storage_set(st, ESCROWS,
                                  MapSet(MapNew, escrow_id, lock_update(escrow)))),
                       "locked", <<escrow_id, resolver>>)

lock_escrow_outcome(st, led, escrow_id, resolver, auths) ==
    IF ~require_auth(resolver, auths) THEN AuthAbort(st)
    ELSE LET escrows == storage_get(st, ESCROWS, MapNew)
         IN  IF ~contains_key(escrows, escrow_id) THEN Err(st, "EscrowNotFound")
             ELSE LET escrow == escrows[escrow_id]
                  IN  IF lock_status_invalid(escrow) THEN Err(st, "InvalidStatus")
                      ELSE Published(Ok(storage_set(st, ESCROWS,
                                  MapSet(escrows, escrow_id, lock_update(escrow)))),
                       "locked", <<escrow_id, resolver>>)

-----------------------------------------------------------------------------
(* complete_escrow *)

\* mutant: complete_escrow rejects only terminal escrows
complete_status_invalid_terminal(escrow) ==
    escrow.status # StatusPending /\ escrow.status # StatusLocked

\* "if escrow.status != 1"
complete_status_invalid(escrow) == escrow.status # StatusLocked

\* mutant: only the lengths of the digests are compared
complete_secret_invalid_length(escrow, secret) ==
    Len(compute_hash_lock(secret)) # Len(escrow.hash_lock)

\* mutant: the secret is not checked
complete_secret_invalid_never(escrow, secret) == FALSE

\* mutant: every secret is rejected
complete_secret_invalid_always(escrow, secret) == TRUE

\* "if computed_hash != escrow.hash_lock"
complete_secret_invalid(escrow, secret) ==
    compute_hash_lock(secret) # escrow.hash_lock

\* mutant: the time lock is not checked
complete_timelock_expired_never(escrow, led) == FALSE

\* mutant: completion is still allowed one instant after the time lock
complete_timelock_expired_late(escrow, led) ==
    led.timestamp > escrow.time_lock + 1

\* "if env.ledger().timestamp() > escrow.time_lock"
complete_timelock_expired(escrow, led) == led.timestamp > escrow.time_lock

\* mutant: the timelock is checked before the secret
complete_checks_timelock_first(escrow, secret, led) ==
    IF complete_status_invalid(escrow) THEN "InvalidStatus"
    ELSE IF complete_timelock_expired(escrow, led) THEN "TimelockExpired"
    ELSE IF complete_secret_invalid(escrow, secret) THEN "InvalidSecret"
    ELSE "Ok"

\* mutant: the hash check is missing
complete_checks_no_hash(escrow, secret, led) ==
    IF complete_status_invalid(escrow) THEN "InvalidStatus"
    ELSE IF complete_timelock_expired(escrow, led) THEN "TimelockExpired"
    ELSE "Ok"

\* the checks of complete_escrow on a record that exists, in the order of the code
complete_checks(escrow, secret, led) ==
    IF complete_status_invalid(escrow) THEN "InvalidStatus"
    ELSE IF complete_secret_invalid(escrow, secret) THEN "InvalidSecret"
    ELSE IF complete_timelock_expired(escrow, led) THEN "TimelockExpired"
    ELSE "Ok"

\* mutant: the secret is not recorded
complete_update_no_secret(escrow, secret) ==
    [escrow EXCEPT !.status = StatusCompleted]

\* mutant: the digest of the secret is recorded in place of the secret
complete_update_digest(escrow, secret) ==
    [escrow EXCEPT !.status = StatusCompleted,
                   !.secret = Some(compute_hash_lock(secret))]

\* the record complete_escrow stores
complete_update(escrow, secret) ==
    [escrow EXCEPT !.status = StatusCompleted, !.secret = Some(secret)]

\* mutant: the authorization of the maker is required to complete
complete_escrow_outcome_maker_auth(st, led, escrow_id, secret, resolver, auths) ==
    LET escrows == storage_get(st, ESCROWS, MapNew)
    IN  IF ~contains_key(escrows, escrow_id) THEN Err(st, "EscrowNotFound")
        ELSE LET escrow == escrows[escrow_id]
                 check == complete_checks(escrow, secret, led)
             IN  IF ~require_auth(escrow.maker, auths) THEN AuthAbort(st)
                 ELSE IF check # "Ok" THEN Err(st, check)
                 ELSE Published(Ok(storage_set(st, ESCROWS,
                                    MapSet(escrows, escrow_id,
                                           complete_update(escrow, secret)))),
                                "completed", <<escrow_id, resolver, secret>>)

\* mutant: the completed event is not published
complete_escrow_outcome_silent(st, led, escrow_id, secret, resolver, auths) ==
    IF ~require_auth(resolver, auths) THEN AuthAbort(st)
    ELSE LET escrows == storage_get(st, ESCROWS, MapNew)
         IN  IF ~contains_key(escrows, escrow_id) THEN Err(st, "EscrowNotFound")
             ELSE LET escrow == escrows[escrow_id]
                      check == complete_checks(escrow, secret, led)
                  IN  IF check # "Ok" THEN Err(st, check)
                      ELSE Ok(storage_set(st, ESCROWS,
                                  MapSet(escrows, escrow_id,
                                         complete_update(escrow, secret))))

complete_escrow_outcome(st, led, escrow_id, secret, resolver, auths) ==
    IF ~require_auth(resolver, auths) THEN AuthAbort(st)
    ELSE LET escrows == storage_get(st, ESCROWS, MapNew)
         IN  IF ~contains_key(escrows, escrow_id) THEN Err(st, "EscrowNotFound")
             ELSE LET escrow == escrows[escrow_id]
                      check == complete_checks(escrow, secret, led)
                  IN  IF check # "Ok" THEN Err(st, check)
                      ELSE Published(Ok(storage_set(st, ESCROWS,
                                  MapSet(escrows, escrow_id,
                                         complete_update(escrow, secret)))),
                       "completed", <<escrow_id, resolver, secret>>)

-----------------------------------------------------------------------------
(* refund_escrow *)

\* mutant: only a Locked escrow can be refunded
refund_status_invalid_pending(escrow) == escrow.status # StatusLocked

\* mutant: only an escrow that is already Refunded is rejected
refund_status_invalid_refunded(escrow) == escrow.status = StatusRefunded

\* "if escrow.status != 0 && escrow.status != 1"
refund_status_invalid(escrow) ==
    escrow.status # StatusPending /\ escrow.status # StatusLocked

\* mutant: refund is allowed from the expiry instant on
refund_timelock_not_expired_strict(escrow, led) ==
    led.timestamp < escrow.time_lock

\* "if env.ledger().timestamp() <= escrow.time_lock"
refund_timelock_not_expired(escrow, led) == led.timestamp <= escrow.time_lock

\* the checks of refund_escrow that follow the authorization of the maker
refund_checks(escrow, led) ==
    IF refund_status_invalid(escrow) THEN "InvalidStatus"
    ELSE IF refund_timelock_not_expired(escrow, led) THEN "TimelockNotExpired"
    ELSE "Ok"

\* mutant: the refund also zeroes the amount
refund_update_zero_amount(escrow) ==
    [escrow EXCEPT !.status = StatusRefunded, !.amount = 0]

\* the record refund_escrow stores
refund_update(escrow) == [escrow EXCEPT !.status = StatusRefunded]

\* mutant: the authorization of the other maker is required
refund_authorizer_other(escrow) ==
    IF escrow.maker = "alice" THEN "bob" ELSE "alice"

\* the identity whose authorization refund_escrow requires
refund_authorizer(escrow) == escrow.maker

\* mutant: the refund is applied to every refundable escrow of the maker
refund_escrow_outcome_sweep(st, led, escrow_id, auths) ==
    LET escrows == storage_get(st, ESCROWS, MapNew)
    IN  IF ~contains_key(escrows, escrow_id) THEN Err(st, "EscrowNotFound")
        ELSE LET escrow == escrows[escrow_id]
                 check == refund_checks(escrow, led)
             IN  IF ~require_auth(refund_authorizer(escrow), auths) THEN AuthAbort(st)
                 ELSE IF check # "Ok" THEN Err(st, check)
                 ELSE Published(Ok(storage_set(st, ESCROWS,
                             [k \in DOMAIN escrows |->
                                 IF escrows[k].maker = escrow.maker
                                    /\ refund_checks(escrows[k], led) = "Ok"
                                 THEN refund_update(escrows[k])
                                 ELSE escrows[k]])),
                        "refunded", <<escrow_id, escrow.maker>>)

refund_escrow_outcome(st, led, escrow_id, auths) ==
    LET escrows == storage_get(st, ESCROWS, MapNew)
    IN  IF ~contains_key(escrows, escrow_id) THEN Err(st, "EscrowNotFound")
        ELSE LET escrow == escrows[escrow_id]
                 check == refund_checks(escrow, led)
             IN  IF ~require_auth(refund_authorizer(escrow), auths) THEN AuthAbort(st)
                 ELSE IF check # "Ok" THEN Err(st, check)
                 ELSE Published(Ok(storage_set(st, ESCROWS,
                             MapSet(escrows, escrow_id, refund_update(escrow)))),
                       "refunded", <<escrow_id, escrow.maker>>)

-----------------------------------------------------------------------------
(* Queries *)

\* get_escrow: Option<Escrow>
get_escrow(st, escrow_id) ==
    LET escrows == storage_get(st, ESCROWS, MapNew)
    IN  IF contains_key(escrows, escrow_id) THEN <<escrows[escrow_id]>> ELSE <<>>

\* the number of records of the registry with the given status
count_status(escrows, status) ==
    Cardinality({id \in DOMAIN escrows : escrows[id].status = status})

\* get_stats: (counter, pending, locked, completed, refunded)
get_stats(st) ==
    LET escrows == storage_get(st, ESCROWS, MapNew)
    IN  <<storage_get(st, COUNTER, 0),
          count_status(escrows, StatusPending),
          count_status(escrows, StatusLocked),
          count_status(escrows, StatusCompleted),
          count_status(escrows, StatusRefunded)>>

\* Bytes order of the host: lexicographic, a proper prefix first
RECURSIVE bytes_less(_, _)
bytes_less(a, b) ==
    IF b = <<>> THEN FALSE
    ELSE IF a = <<>> THEN TRUE
    ELSE IF Head(a) # Head(b) THEN Head(a) < Head(b)
    ELSE bytes_less(Tail(a), Tail(b))

\* "for (_, escrow) in escrows.iter()": the map is visited in key order and
\* the records whose maker is the argument are pushed to the result
RECURSIVE scan_by_maker(_, _, _, _)
scan_by_maker(escrows, keys, maker, acc) ==
    IF keys = {} THEN acc
    ELSE LET key == CHOOSE k \in keys : \A o \in keys \ {k} : bytes_less(k, o)
             escrow == escrows[key]
         IN  scan_by_maker(escrows, keys \ {key}, maker,
                           IF escrow.maker = maker THEN Append(acc, escrow) ELSE acc)

\* mutant: the maker filter is missing
get_escrows_by_maker_all(st, maker) ==
    LET escrows == storage_get(st, ESCROWS, MapNew)
        RECURSIVE all(_, _)
        all(keys, acc) ==
            IF keys = {} THEN acc
            ELSE LET key == CHOOSE k \in keys : TRUE
                 IN  all(keys \ {key}, Append(acc, escrows[key]))
    IN  all(DOMAIN escrows, <<>>)

\* get_escrows_by_maker: Vec<Escrow>
get_escrows_by_maker(st, maker) ==
    LET escrows == storage_get(st, ESCROWS, MapNew)
    IN  scan_by_maker(escrows, DOMAIN escrows, maker, <<>>)

-----------------------------------------------------------------------------
(* The state machine *)

\* ids a caller may pass: those in the registry and an unknown one
CallIds == DOMAIN Registry \cup {UnknownId}

Init ==
    /\ storage = [k \in {} |-> 0]
    /\ ledger = [timestamp |-> 0, sequence |-> 0]
    /\ result = [op |-> "none", res |-> "Ok"]
    /\ issued = <<>>
    /\ events = <<>>

\* mutant: a second initialize is refused, as in the sibling contracts
initialize_guarded ==
    /\ storage' = IF ESCROWS \in DOMAIN storage THEN storage
                  ELSE storage_set(storage_set(storage, COUNTER, 0), ESCROWS, MapNew)
    /\ result' = [op |-> "initialize",
                  res |-> IF ESCROWS \in DOMAIN storage THEN "AuthAbort" ELSE "Ok"]
    /\ events' = <<>>
    /\ UNCHANGED <<ledger, issued>>

\* mutant: only the counter is reset
initialize_counter_only ==
    /\ storage' = storage_set(storage_set(storage, COUNTER, 0), ESCROWS, Registry)
    /\ result' = [op |-> "initialize", res |-> "Ok"]
    /\ events' = <<>>
    /\ UNCHANGED <<ledger, issued>>

initialize ==
    /\ storage' = storage_set(storage_set(storage, COUNTER, 0), ESCROWS, MapNew)
    /\ result' = [op |-> "initialize", res |-> "Ok"]
    /\ events' = <<>>
    /\ UNCHANGED <<ledger, issued>>

create_escrow(maker, amount, asset, hash_lock, time_locks, auths) ==
    LET out == create_escrow_outcome(storage, ledger, maker, amount, asset,
                                     hash_lock, time_locks, auths)
    IN  /\ out.res = "Ok" => Len(issued) < MaxCreates
        /\ storage' = out.storage
        /\ result' = [op |-> "create_escrow", res |-> out.res]
        /\ issued' = IF out.res = "Ok" THEN Append(issued, out.id[1]) ELSE issued
        /\ events' = out.events
        /\ UNCHANGED ledger

lock_escrow(escrow_id, resolver, auths) ==
    LET out == lock_escrow_outcome(storage, ledger, escrow_id, resolver, auths)
    IN  /\ storage' = out.storage
        /\ result' = [op |-> "lock_escrow", res |-> out.res]
        /\ events' = out.events
        /\ UNCHANGED <<ledger, issued>>

complete_escrow(escrow_id, secret, resolver, auths) ==
    LET out == complete_escrow_outcome(storage, ledger, escrow_id, secret,
                                       resolver, auths)
    IN  /\ storage' = out.storage
        /\ result' = [op |-> "complete_escrow", res |-> out.res]
        /\ events' = out.events
        /\ UNCHANGED <<ledger, issued>>

refund_escrow(escrow_id, auths) ==
    LET out == refund_escrow_outcome(storage, ledger, escrow_id, auths)
    IN  /\ storage' = out.storage
        /\ result' = [op |-> "refund_escrow", res |-> out.res]
        /\ events' = out.events
        /\ UNCHANGED <<ledger, issued>>

\* mutant: get_escrow takes the record out of the registry
query_get_escrow_take(escrow_id) ==
    /\ storage' = IF escrow_id \in DOMAIN Registry
                  THEN storage_set(storage, ESCROWS,
                                   [k \in DOMAIN Registry \ {escrow_id} |-> Registry[k]])
                  ELSE storage
    /\ result' = [op |-> "get_escrow", res |-> "Ok"]
    /\ events' = <<>>
    /\ UNCHANGED <<ledger, issued>>

\* the three queries read the storage, return a value and write nothing; the
\* first conjunct of each is the type of the value returned
query_get_escrow(escrow_id) ==
    /\ get_escrow(storage, escrow_id)
          \in {None} \cup {Some(Registry[id]) : id \in DOMAIN Registry}
    /\ result' = [op |-> "get_escrow", res |-> "Ok"]
    /\ events' = <<>>
    /\ UNCHANGED <<storage, ledger, issued>>

query_get_escrows_by_maker(maker) ==
    /\ Len(get_escrows_by_maker(storage, maker)) >= 0
    /\ result' = [op |-> "get_escrows_by_maker", res |-> "Ok"]
    /\ events' = <<>>
    /\ UNCHANGED <<storage, ledger, issued>>

query_get_stats ==
    /\ Len(get_stats(storage)) = 5
    /\ result' = [op |-> "get_stats", res |-> "Ok"]
    /\ events' = <<>>
    /\ UNCHANGED <<storage, ledger, issued>>

\* the ledger closes: the sequence number grows by one and the timestamp advances
close_ledger(step) ==
    /\ ledger.timestamp + step <= MaxTime
    /\ ledger' = [timestamp |-> ledger.timestamp + step,
                  sequence |-> ledger.sequence + 1]
    /\ UNCHANGED <<storage, result, issued, events>>

Next ==
    \/ initialize
    \/ \E a \in CreateArgs, auths \in AuthSets :
            create_escrow(a.maker, a.amount, a.asset, a.hash_lock, a.time_locks, auths)
    \/ \E escrow_id \in CallIds, resolver \in Resolvers, auths \in AuthSets :
            lock_escrow(escrow_id, resolver, auths)
    \/ \E escrow_id \in CallIds, secret \in Secrets, resolver \in Resolvers,
          auths \in AuthSets :
            complete_escrow(escrow_id, secret, resolver, auths)
    \/ \E escrow_id \in CallIds, auths \in AuthSets :
            refund_escrow(escrow_id, auths)
    \/ \E escrow_id \in CallIds : query_get_escrow(escrow_id)
    \/ \E maker \in Makers : query_get_escrows_by_maker(maker)
    \/ query_get_stats
    \/ \E step \in 1..MaxStep : close_ledger(step)

Spec == Init /\ [][Next]_vars

\* every id create_escrow can return within the bounds
PossibleIds ==
    {sha256(escrow_id_data(t, q, c, a.amount)) :
        t \in 0..MaxTime, q \in 0..MaxTime, c \in 1..MaxCreates,
        a \in GoodCreateArgs}

\* the maker of escrow id calls refund_escrow with its own authorization, at a
\* time when the call succeeds
maker_refund(id) ==
    /\ id \in DOMAIN Registry
    /\ refund_escrow_outcome(storage, ledger, id, {Registry[id].maker}).res = "Ok"
    /\ refund_escrow(id, {Registry[id].maker})

\* the ledger keeps closing and every maker eventually asks for a refund that
\* is due
SpecFair ==
    /\ Spec
    /\ WF_vars(\E step \in 1..MaxStep : close_ledger(step))
    /\ \A id \in PossibleIds : WF_vars(maker_refund(id))

-----------------------------------------------------------------------------
(* Properties *)

TypedErrors ==
    {"InvalidAmount", "EscrowExists", "EscrowNotFound", "InvalidStatus",
     "InvalidSecret", "TimelockExpired", "TimelockNotExpired"}

\* clock values at which the guards are compared
ClockValues == 0..(MaxTime + 1)

at_time(t) == [ledger EXCEPT !.timestamp = t]

\* some authorized complete_escrow call on id succeeds at clock value t
can_complete(id, t) ==
    \E secret \in Secrets, resolver \in Resolvers :
        complete_escrow_outcome(storage, at_time(t), id, secret, resolver,
                                {resolver}).res = "Ok"

\* some refund_escrow call on id succeeds at clock value t
can_refund(id, t) ==
    \E auths \in AuthSets :
        refund_escrow_outcome(storage, at_time(t), id, auths).res = "Ok"

\* C1: for every escrow record and every clock value, complete_escrow and
\* refund_escrow cannot both succeed: completion needs now <= time_lock and
\* refund needs now > time_lock; at now = time_lock refund fails and the
\* completion of a Locked escrow with its secret succeeds, at now = time_lock + 1
\* completion fails and the refund of a Pending or Locked escrow succeeds.
C1_WindowsDisjoint ==
    \A id \in DOMAIN Registry : \A t \in ClockValues :
        LET escrow == Registry[id]
        IN  /\ ~(can_complete(id, t) /\ can_refund(id, t))
            /\ can_complete(id, t) => t <= escrow.time_lock
            /\ can_refund(id, t) => t > escrow.time_lock
            /\ t = escrow.time_lock =>
                  /\ ~can_refund(id, t)
                  /\ (escrow.status = StatusLocked
                        /\ \E secret \in Secrets : sha256(secret) = escrow.hash_lock)
                     => can_complete(id, t)
            /\ t = escrow.time_lock + 1 =>
                  /\ ~can_complete(id, t)
                  /\ escrow.status \in {StatusPending, StatusLocked}
                     => can_refund(id, t)

\* C1 witness: a completion has succeeded at the boundary instant now = time_lock
C1_Witness ==
    /\ result = [op |-> "complete_escrow", res |-> "Ok"]
    /\ \E id \in DOMAIN Registry :
          /\ Registry[id].status = StatusCompleted
          /\ Registry[id].time_lock = ledger.timestamp

\* C2: with the resolver authorized, complete_escrow succeeds iff the record
\* exists, is Locked, sha256(secret) equals its hash_lock and now <= time_lock;
\* in every other case it returns one of EscrowNotFound, InvalidStatus,
\* InvalidSecret, TimelockExpired.
C2_CompleteIff ==
    \A id \in CallIds, secret \in Secrets, resolver \in Resolvers,
       auths \in AuthSets :
        resolver \in auths =>
            LET out == complete_escrow_outcome(storage, ledger, id, secret,
                                               resolver, auths)
                fine == /\ id \in DOMAIN Registry
                        /\ Registry[id].status = StatusLocked
                        /\ sha256(secret) = Registry[id].hash_lock
                        /\ ledger.timestamp <= Registry[id].time_lock
            IN  /\ out.res = "Ok" <=> fine
                /\ ~fine => out.res \in {"EscrowNotFound", "InvalidStatus",
                                         "InvalidSecret", "TimelockExpired"}

\* C2 witness: a complete_escrow call has succeeded
C2_Witness ==
    /\ result.op = "complete_escrow"
    /\ result.res = "Ok"
    /\ \E id \in DOMAIN Registry : Registry[id].status = StatusCompleted

StatusEdges ==
    {<<StatusPending, StatusLocked, "lock_escrow">>,
     <<StatusLocked, StatusCompleted, "complete_escrow">>,
     <<StatusPending, StatusRefunded, "refund_escrow">>,
     <<StatusLocked, StatusRefunded, "refund_escrow">>}

\* C5: in every step, the status of a record that stays in the registry is
\* unchanged or moves along Pending->Locked (lock_escrow), Locked->Completed
\* (complete_escrow), Pending->Refunded or Locked->Refunded (refund_escrow),
\* the step being a successful call of that operation; no other change, in
\* particular Pending->Completed or a move backwards, occurs.
C5_StatusEdges ==
    [][\A id \in DOMAIN Registry \cap DOMAIN Registry' :
          \/ Registry'[id].status = Registry[id].status
          \/ /\ <<Registry[id].status, Registry'[id].status, result'.op>>
                    \in StatusEdges
             /\ result'.res = "Ok"]_vars

\* C5 witness: one escrow has gone Pending->Locked->Completed and another has
\* been refunded
C5_Witness ==
    \E id1, id2 \in DOMAIN Registry :
        /\ Registry[id1].status = StatusCompleted
        /\ Registry[id2].status = StatusRefunded

\* C6: complete_escrow, authorized, reports the first failing check in the
\* order existence, status, secret, timelock: an unknown id gives
\* EscrowNotFound; a record that is not Locked gives InvalidStatus whatever the
\* secret and the clock; a Locked record gives InvalidSecret for a wrong secret,
\* expired or not, and TimelockExpired for the correct secret once expired.
C6_CheckOrder ==
    \A id \in CallIds, secret \in Secrets, resolver \in Resolvers,
       t \in ClockValues :
        LET res == complete_escrow_outcome(storage, at_time(t), id, secret,
                                           resolver, {resolver}).res
        IN  IF id \notin DOMAIN Registry THEN res = "EscrowNotFound"
            ELSE IF Registry[id].status # StatusLocked THEN res = "InvalidStatus"
            ELSE IF sha256(secret) # Registry[id].hash_lock
                 THEN res = "InvalidSecret"
            ELSE t > Registry[id].time_lock => res = "TimelockExpired"

\* C6 witness: a Locked escrow past its time_lock has been offered its correct
\* secret and the call returned TimelockExpired
C6_Witness ==
    /\ result = [op |-> "complete_escrow", res |-> "TimelockExpired"]
    /\ \E id \in DOMAIN Registry :
          /\ Registry[id].status = StatusLocked
          /\ ledger.timestamp > Registry[id].time_lock

\* C7: in every reachable state every record of the registry has a secret iff
\* its status is Completed.
C7_SecretIffCompleted ==
    \A id \in DOMAIN Registry :
        is_some(Registry[id].secret) <=> Registry[id].status = StatusCompleted

\* C7 witness: a Completed record holding a secret next to a record without one
C7_Witness ==
    \E id1, id2 \in DOMAIN Registry :
        /\ Registry[id1].status = StatusCompleted
        /\ is_some(Registry[id1].secret)
        /\ Registry[id2].status # StatusCompleted
        /\ ~is_some(Registry[id2].secret)

\* C8: a successful complete_escrow(id, secret, resolver) leaves get_escrow(id)
\* returning a record whose secret is Some(secret), and no later step other
\* than initialize removes the record or changes its secret.
C8_SecretFidelity ==
    /\ [](\A id \in CallIds, secret \in Secrets, resolver \in Resolvers,
             auths \in AuthSets :
            LET out == complete_escrow_outcome(storage, ledger, id, secret,
                                               resolver, auths)
            IN  out.res = "Ok" =>
                    /\ get_escrow(out.storage, id) # None
                    /\ get_escrow(out.storage, id)[1].secret = Some(secret))
    /\ [][~initialize =>
            \A id \in DOMAIN Registry :
                is_some(Registry[id].secret) =>
                    /\ id \in DOMAIN Registry'
                    /\ Registry'[id].secret = Registry[id].secret]_vars

\* C8 witness: a completion with the second candidate secret has succeeded and
\* the record holds that secret
C8_Witness ==
    /\ result = [op |-> "complete_escrow", res |-> "Ok"]
    /\ \E id \in DOMAIN Registry : Registry[id].secret = Some(<<22>>)

\* the fields create_escrow sets and no later call may change
frame_fields(escrow) ==
    <<escrow.id, escrow.maker, escrow.amount, escrow.asset, escrow.hash_lock,
      escrow.time_lock, escrow.created_at>>

\* C9: every step other than initialize (so every lock_escrow, complete_escrow
\* and refund_escrow call, successful or not) keeps each record in the registry
\* with its id, maker, amount, asset, hash_lock, time_lock and created_at.
C9_FrameFields ==
    [][~initialize =>
          \A id \in DOMAIN Registry :
              /\ id \in DOMAIN Registry'
              /\ frame_fields(Registry'[id]) = frame_fields(Registry[id])]_vars

\* C9 witness: one record has been locked and completed, another refunded
C9_Witness ==
    /\ result.op \in {"complete_escrow", "refund_escrow"}
    /\ result.res = "Ok"
    /\ \E id1, id2 \in DOMAIN Registry :
          /\ Registry[id1].status = StatusCompleted
          /\ Registry[id2].status = StatusRefunded

\* C10 (as claimed): the ids returned by successful create_escrow calls are
\* pairwise distinct.
C10_IdsPairwiseDistinct ==
    \A i, j \in DOMAIN issued : i # j => issued[i] # issued[j]

\* C11: in every reachable state the tuple returned by get_stats satisfies
\* pending + locked + completed + refunded = counter.
C11_StatsConservation ==
    LET stats == get_stats(storage)
    IN  stats[2] + stats[3] + stats[4] + stats[5] = stats[1]

\* C11 witness: two escrows created, one completed and one refunded
C11_Witness == get_stats(storage) = <<2, 0, 0, 1, 1>>

\* the authorizations offered in the comparisons below: none, or one identity's
AnyAuths == AuthSets \cup {{}}

C13_AuthAbortFirst ==
    /\ \A a \in CreateArgs, auths \in AnyAuths :
          a.maker \notin auths =>
              LET out == create_escrow_outcome(storage, ledger, a.maker, a.amount,
                              a.asset, a.hash_lock, a.time_locks, auths)
              IN  out.res \notin TypedErrors /\ out.storage = storage
    /\ \A id \in CallIds, resolver \in Resolvers, auths \in AnyAuths :
          resolver \notin auths =>
              /\ LET out == lock_escrow_outcome(storage, ledger, id, resolver, auths)
                 IN  out.res \notin TypedErrors /\ out.storage = storage
              /\ \A secret \in Secrets :
                    LET out == complete_escrow_outcome(storage, ledger, id, secret,
                                                       resolver, auths)
                    IN  out.res \notin TypedErrors /\ out.storage = storage
    /\ \A id \in CallIds :
          LET out == refund_escrow_outcome(storage, ledger, id, {})
          IN  out.res \notin TypedErrors /\ out.storage = storage

\* C13 (amended): an unauthorized lock_escrow or complete_escrow call aborts
\* whatever its other arguments; an unauthorized create_escrow call aborts when
\* amount > 0 and returns InvalidAmount when amount <= 0; a refund_escrow call
\* not authorized by the stored maker aborts when the record exists and returns
\* EscrowNotFound when it does not; in every case the storage is unchanged.
C13_AuthAbortAmended ==
    /\ \A a \in CreateArgs, auths \in AnyAuths :
          a.maker \notin auths =>
              LET out == create_escrow_outcome(storage, ledger, a.maker, a.amount,
                              a.asset, a.hash_lock, a.time_locks, auths)
              IN  /\ out.res = IF a.amount <= 0 THEN "InvalidAmount" ELSE "AuthAbort"
                  /\ out.storage = storage
    /\ \A id \in CallIds, resolver \in Resolvers, auths \in AnyAuths :
          resolver \notin auths =>
              /\ LET out == lock_escrow_outcome(storage, ledger, id, resolver, auths)
                 IN  out.res = "AuthAbort" /\ out.storage = storage
              /\ \A secret \in Secrets :
                    LET out == complete_escrow_outcome(storage, ledger, id, secret,
                                                       resolver, auths)
                    IN  out.res = "AuthAbort" /\ out.storage = storage
    /\ \A id \in CallIds, auths \in AnyAuths :
          LET out == refund_escrow_outcome(storage, ledger, id, auths)
          IN  /\ id \notin DOMAIN Registry => out.res = "EscrowNotFound"
              /\ (id \in DOMAIN Registry /\ Registry[id].maker \notin auths)
                    => out.res = "AuthAbort"
              /\ out.res \in {"EscrowNotFound", "AuthAbort"} => out.storage = storage

\* C13 witness: an unauthorized call on an existing escrow has aborted
C13_Witness ==
    /\ result.op \in {"lock_escrow", "complete_escrow", "refund_escrow"}
    /\ result.res = "AuthAbort"
    /\ DOMAIN Registry # {}

\* C14: create_escrow with amount <= 0 returns InvalidAmount and stores
\* nothing; with amount > 0 and the maker authorized it returns an id under
\* which get_escrow yields a new record with status Pending, no secret,
\* created_at = now and maker, amount, asset, hash_lock, time_lock as given,
\* the other records being kept.
C14_CreateEffect ==
    \A a \in CreateArgs, auths \in AnyAuths :
        LET out == create_escrow_outcome(storage, ledger, a.maker, a.amount,
                        a.asset, a.hash_lock, a.time_locks, auths)
        IN  /\ a.amount <= 0 =>
                  out.res = "InvalidAmount" /\ out.storage = storage
            /\ (a.amount > 0 /\ a.maker \in auths) =>
                  /\ out.res = "Ok"
                  /\ is_some(out.id)
                  /\ out.id[1] \notin DOMAIN Registry
                  /\ get_escrow(out.storage, out.id[1]) =
                        Some([id |-> out.id[1],
                              maker |-> a.maker,
                              amount |-> a.amount,
                              asset |-> a.asset,
                              hash_lock |-> a.hash_lock,
                              time_lock |-> a.time_locks.withdrawal,
                              status |-> StatusPending,
                              secret |-> None,
                              created_at |-> ledger.timestamp])
                  /\ \A id \in DOMAIN Registry :
                        get_escrow(out.storage, id) = Some(Registry[id])

\* C14 witness: create_escrow has just stored a Pending record at time 1
C14_Witness ==
    /\ result = [op |-> "create_escrow", res |-> "Ok"]
    /\ issued # <<>>
    /\ get_escrow(storage, issued[Len(issued)]) # None
    /\ LET escrow == get_escrow(storage, issued[Len(issued)])[1]
       IN  /\ escrow.status = StatusPending
           /\ escrow.created_at = 1
           /\ escrow.maker = "bob"
           /\ escrow.amount = 2

\* C15: with the resolver authorized, lock_escrow succeeds iff the record
\* exists and is Pending, at every clock value, before and after time_lock; it
\* then sets the status to Locked and changes nothing else; otherwise it
\* returns EscrowNotFound (no record) or InvalidStatus.
C15_LockIff ==
    \A id \in CallIds, resolver \in Resolvers, t \in ClockValues :
        LET out == lock_escrow_outcome(storage, at_time(t), id, resolver,
                                       {resolver})
        IN  IF id \notin DOMAIN Registry THEN out.res = "EscrowNotFound"
            ELSE IF Registry[id].status # StatusPending
                 THEN out.res = "InvalidStatus"
            ELSE /\ out.res = "Ok"
                 /\ get_escrow(out.storage, id) =
                        Some([Registry[id] EXCEPT !.status = StatusLocked])

\* C15 witness: an escrow created after its time_lock had passed has been locked
C15_Witness ==
    /\ result = [op |-> "lock_escrow", res |-> "Ok"]
    /\ \E id \in DOMAIN Registry :
          /\ Registry[id].status = StatusLocked
          /\ Registry[id].created_at > Registry[id].time_lock

\* escrow id is in the registry, Pending or Locked, and past its time lock
expired_open(id) ==
    /\ id \in DOMAIN Registry
    /\ Registry[id].status \in {StatusPending, StatusLocked}
    /\ ledger.timestamp > Registry[id].time_lock

\* escrow id is in the registry and Completed or Refunded
terminal(id) ==
    /\ id \in DOMAIN Registry
    /\ Registry[id].status \in {StatusCompleted, StatusRefunded}

\* C16 (as claimed): for a Pending or Locked escrow past its time lock the
\* maker's refund_escrow call succeeds, and, the ledger advancing and the maker
\* eventually calling refund_escrow, every such escrow eventually is Completed
\* or Refunded.
C16_NoStuckEscrow ==
    /\ [](\A id \in DOMAIN Registry :
            expired_open(id) =>
                refund_escrow_outcome(storage, ledger, id,
                                      {Registry[id].maker}).res = "Ok")
    /\ \A id \in PossibleIds : expired_open(id) ~> terminal(id)

\* C17 (as claimed): every id returned by create_escrow is answered by
\* get_escrow with a record in every later state.
C17_NeverDeleted ==
    \A i \in DOMAIN issued : get_escrow(storage, issued[i]) # None

\* C18 (as claimed): the counter never decreases; it grows by exactly 1 in a
\* successful create_escrow and is unchanged by every other call.
C18_CounterMonotonic ==
    [][/\ Counter' >= Counter
       /\ (ledger' = ledger /\ result'.op = "create_escrow" /\ result'.res = "Ok")
             => Counter' = Counter + 1
       /\ (ledger' = ledger
             /\ result'.op \in {"lock_escrow", "complete_escrow", "refund_escrow"})
             => Counter' = Counter]_vars

\* the candidate secrets whose digest is the hash lock of the escrow
correct_secrets(escrow) == {secret \in Secrets : sha256(secret) = escrow.hash_lock}

\* escrow id was created when its time lock had already passed and is still
\* Pending or Locked
born_expired(id) ==
    /\ id \in DOMAIN Registry
    /\ Registry[id].created_at > Registry[id].time_lock
    /\ Registry[id].status \in {StatusPending, StatusLocked}

\* C19 (as claimed): on an escrow created with a time lock already in the
\* past, complete_escrow with the correct secret fails with TimelockExpired and
\* refund_escrow by the maker then succeeds, leaving the status Refunded.
C19_ScenarioB ==
    \A id \in DOMAIN Registry :
        born_expired(id) =>
            /\ \A secret \in correct_secrets(Registry[id]), resolver \in Resolvers :
                  LET out == complete_escrow_outcome(storage, ledger, id, secret,
                                                     resolver, {resolver})
                  IN  out.res = "TimelockExpired" /\ out.storage = storage
            /\ LET out == refund_escrow_outcome(storage, ledger, id,
                                                {Registry[id].maker})
               IN  /\ out.res = "Ok"
                   /\ get_escrow(out.storage, id)[1].status = StatusRefunded

\* C19 (amended): on such an escrow complete_escrow with the correct secret
\* fails, with InvalidStatus while the escrow is Pending and with
\* TimelockExpired once it has been locked, and leaves the storage unchanged;
\* refund_escrow by the maker then succeeds, leaving the status Refunded.
C19_ScenarioBAmended ==
    \A id \in DOMAIN Registry :
        born_expired(id) =>
            /\ \A secret \in correct_secrets(Registry[id]), resolver \in Resolvers :
                  LET out == complete_escrow_outcome(storage, ledger, id, secret,
                                                     resolver, {resolver})
                  IN  /\ out.res = IF Registry[id].status = StatusPending
                                   THEN "InvalidStatus" ELSE "TimelockExpired"
                      /\ out.storage = storage
            /\ LET out == refund_escrow_outcome(storage, ledger, id,
                                                {Registry[id].maker})
               IN  /\ out.res = "Ok"
                   /\ get_escrow(out.storage, id)[1].status = StatusRefunded

\* C19 witness: an escrow born expired was locked and offered its correct
\* secret, and the call returned TimelockExpired
C19_Witness ==
    /\ result = [op |-> "complete_escrow", res |-> "TimelockExpired"]
    /\ \E id \in DOMAIN Registry :
          /\ born_expired(id)
          /\ Registry[id].status = StatusLocked
          /\ correct_secrets(Registry[id]) # {}
    /\ \A id \in DOMAIN Registry : Registry[id].status = StatusLocked => born_expired(id)

\* C20: on a Locked escrow that has not expired, complete_escrow with a secret
\* whose digest differs from hash_lock returns InvalidSecret and leaves the
\* record Locked without a secret; in every state reached afterwards, as in
\* every other, the correct secret offered while now <= time_lock succeeds.
C20_ScenarioC ==
    \A id \in DOMAIN Registry :
        (Registry[id].status = StatusLocked
            /\ ledger.timestamp <= Registry[id].time_lock) =>
            \A secret \in Secrets, resolver \in Resolvers :
                LET out == complete_escrow_outcome(storage, ledger, id, secret,
                                                   resolver, {resolver})
                IN  IF sha256(secret) # Registry[id].hash_lock
                    THEN /\ out.res = "InvalidSecret"
                         /\ get_escrow(out.storage, id) = Some(Registry[id])
                         /\ Registry[id].secret = None
                    ELSE /\ out.res = "Ok"
                         /\ get_escrow(out.storage, id)[1].status = StatusCompleted

\* C20 witness: a wrong secret has just been rejected on a Locked, unexpired
\* escrow whose correct secret is among the candidates
C20_Witness ==
    /\ result = [op |-> "complete_escrow", res |-> "InvalidSecret"]
    /\ Cardinality(DOMAIN Registry) = 1
    /\ \A id \in DOMAIN Registry :
          /\ Registry[id].status = StatusLocked
          /\ Registry[id].secret = None
          /\ ledger.timestamp <= Registry[id].time_lock
          /\ correct_secrets(Registry[id]) # {}

\* C21: create_escrow accepts a time lock that is already in the past: the
\* authorized call with time_locks.withdrawal < now returns Ok and stores a
\* Pending record with that time lock, and a refund_escrow by the maker in the
\* same ledger, with no lock_escrow in between, succeeds and leaves it Refunded.
C21_PastTimeLock ==
    \A a \in GoodCreateArgs :
        a.time_locks.withdrawal < ledger.timestamp =>
            LET out == create_escrow_outcome(storage, ledger, a.maker, a.amount,
                                             a.asset, a.hash_lock, a.time_locks,
                                             {a.maker})
                id == out.id[1]
                refund == refund_escrow_outcome(out.storage, ledger, id, {a.maker})
            IN  /\ out.res = "Ok"
                /\ get_escrow(out.storage, id)[1].status = StatusPending
                /\ get_escrow(out.storage, id)[1].time_lock = a.time_locks.withdrawal
                /\ refund.res = "Ok"
                /\ get_escrow(refund.storage, id)[1].status = StatusRefunded

\* C21 witness: create_escrow has just stored a Pending escrow whose time lock
\* is earlier than its creation time
C21_Witness ==
    /\ result = [op |-> "create_escrow", res |-> "Ok"]
    /\ Registry[issued[Len(issued)]].status = StatusPending
    /\ Registry[issued[Len(issued)]].time_lock < Registry[issued[Len(issued)]].created_at
    /\ Registry[issued[Len(issued)]].created_at = ledger.timestamp

\* the clock values from now on
LaterClockValues == {t \in ClockValues : t >= ledger.timestamp}

MutatingCalls ==
    {[op |-> "lock_escrow", id |-> id, resolver |-> r, secret |-> None] :
        id \in DOMAIN Registry, r \in Resolvers}
    \cup {[op |-> "complete_escrow", id |-> id, resolver |-> r, secret |-> s] :
            id \in DOMAIN Registry, r \in Resolvers, s \in Secrets}
    \cup {[op |-> "refund_escrow", id |-> id, resolver |-> Registry[id].maker,
           secret |-> None] : id \in DOMAIN Registry}

\* the outcome of call c on storage st in the current ledger
apply_call(st, c) ==
    CASE c.op = "lock_escrow" ->
            lock_escrow_outcome(st, ledger, c.id, c.resolver, {c.resolver})
      [] c.op = "complete_escrow" ->
            complete_escrow_outcome(st, ledger, c.id, c.secret, c.resolver,
                                    {c.resolver})
      [] c.op = "refund_escrow" ->
            refund_escrow_outcome(st, ledger, c.id, {c.resolver})

\* the authorized create_escrow call with arguments a on storage st
apply_create(st, a) ==
    create_escrow_outcome(st, ledger, a.maker, a.amount, a.asset, a.hash_lock,
                          a.time_locks, {a.maker})

C24_StatsCountCreated ==
    LET stats == get_stats(storage)
    IN  stats[2] + stats[3] + stats[4] + stats[5] = Len(issued)

\* C25: initialize can be called in every state and needs no authorization;
\* each call returns Ok and leaves the counter at 0 and the registry empty:
\* get_stats is (0, 0, 0, 0, 0), every id issued before is absent and no maker
\* has a record.
C25_Reinitialize ==
    /\ [](ENABLED initialize)
    /\ [][(result'.op = "initialize" /\ ledger' = ledger) =>
             /\ result'.res = "Ok"
             /\ get_stats(storage') = <<0, 0, 0, 0, 0>>
             /\ \A i \in DOMAIN issued : get_escrow(storage', issued[i]) = None
             /\ \A maker \in Makers : get_escrows_by_maker(storage', maker) = <<>>]_vars

\* C25 witness: initialize was the last call, after two escrows had been created
C25_Witness ==
    /\ result = [op |-> "initialize", res |-> "Ok"]
    /\ Len(issued) = 2
    /\ get_stats(storage) = <<0, 0, 0, 0, 0>>

\* the ids of the records of maker in the registry
ids_of_maker(maker) == {id \in DOMAIN Registry : Registry[id].maker = maker}

\* C26: for every maker, get_escrows_by_maker returns the registry records
\* whose maker is the argument, each exactly once and whatever its status,
\* and no other record.
C26_ByMakerExact ==
    \A maker \in Identities :
        LET out == get_escrows_by_maker(storage, maker)
        IN  /\ {out[i] : i \in DOMAIN out} = {Registry[id] : id \in ids_of_maker(maker)}
            /\ Len(out) = Cardinality(ids_of_maker(maker))
            /\ \A i, j \in DOMAIN out : i # j => out[i].id # out[j].id

\* C26 witness: the query was called on a registry holding one record of each
\* maker, one of them no longer Pending
C26_Witness ==
    /\ result.op = "get_escrows_by_maker"
    /\ \A maker \in Makers : Cardinality(ids_of_maker(maker)) = 1
    /\ \E id \in DOMAIN Registry : Registry[id].status # StatusPending

\* C27: the clock never goes back; every step that makes a record Completed
\* is taken at now <= time_lock and every step that makes it Refunded at
\* now > time_lock; the time lock of a record never changes; and a record that
\* is not Completed once now > time_lock cannot be completed at any later clock
\* value, whatever the secret, the resolver and the authorization, so it is
\* never Completed afterwards and the only terminal status left is Refunded.
C27_NoCompletionAfterExpiry ==
    /\ [](\A id \in DOMAIN Registry :
            (ledger.timestamp > Registry[id].time_lock
                /\ Registry[id].status # StatusCompleted) =>
                \A t \in LaterClockValues, secret \in Secrets,
                   resolver \in Resolvers, auths \in AnyAuths :
                    complete_escrow_outcome(storage, at_time(t), id, secret,
                                            resolver, auths).res # "Ok")
    /\ [][/\ ledger'.timestamp >= ledger.timestamp
          /\ \A id \in DOMAIN Registry \cap DOMAIN Registry' :
                /\ Registry'[id].time_lock = Registry[id].time_lock
                /\ (Registry[id].status # StatusCompleted
                       /\ Registry'[id].status = StatusCompleted)
                      => ledger.timestamp <= Registry[id].time_lock
                /\ (Registry[id].status # StatusRefunded
                       /\ Registry'[id].status = StatusRefunded)
                      => ledger.timestamp > Registry[id].time_lock
                /\ (ledger.timestamp > Registry[id].time_lock
                       /\ Registry[id].status # StatusCompleted)
                      => Registry'[id].status # StatusCompleted]_vars

\* C27 witness: an escrow created before its time lock was refunded after it
C27_Witness ==
    /\ result = [op |-> "refund_escrow", res |-> "Ok"]
    /\ Cardinality(DOMAIN Registry) = 1
    /\ \A id \in DOMAIN Registry :
          /\ Registry[id].status = StatusRefunded
          /\ Registry[id].created_at <= Registry[id].time_lock
          /\ ledger.timestamp > Registry[id].time_lock

\* storage st holds the counter and every record of the registry other than
\* the one under id as the current storage does, and the same ids
same_elsewhere(st, id) ==
    LET after == storage_get(st, ESCROWS, MapNew)
    IN  /\ DOMAIN after = DOMAIN Registry
        /\ \A other \in DOMAIN Registry \ {id} : after[other] = Registry[other]
        /\ storage_get(st, COUNTER, 0) = Counter

\* C28: a lock_escrow, complete_escrow or refund_escrow call on id, with any
\* arguments and authorization, leaves the counter, the set of ids and every
\* record other than that of id unchanged; a successful create_escrow adds
\* exactly one id, which was not in the registry, and leaves every record
\* that was there unchanged.
C28_PerKeyFrame ==
    /\ \A id \in CallIds, auths \in AnyAuths :
          /\ \A resolver \in Resolvers :
                /\ same_elsewhere(lock_escrow_outcome(storage, ledger, id, resolver,
                                                      auths).storage, id)
                /\ \A secret \in Secrets :
                      same_elsewhere(complete_escrow_outcome(storage, ledger, id,
                                         secret, resolver, auths).storage, id)
          /\ same_elsewhere(refund_escrow_outcome(storage, ledger, id, auths).storage,
                            id)
    /\ \A a \in CreateArgs, auths \in AnyAuths :
          LET out == create_escrow_outcome(storage, ledger, a.maker, a.amount,
                                           a.asset, a.hash_lock, a.time_locks, auths)
              after == storage_get(out.storage, ESCROWS, MapNew)
          IN  out.res = "Ok" =>
                  /\ out.id[1] \notin DOMAIN Registry
                  /\ DOMAIN after = DOMAIN Registry \cup {out.id[1]}
                  /\ \A id \in DOMAIN Registry : after[id] = Registry[id]

\* C28 witness: a refund has just succeeded on one of two expired escrows of
\* the same maker, and the other one is still Pending
C28_Witness ==
    /\ result = [op |-> "refund_escrow", res |-> "Ok"]
    /\ Cardinality(DOMAIN Registry) = 2
    /\ \A id \in DOMAIN Registry :
          Registry[id].maker = "alice" /\ ledger.timestamp > Registry[id].time_lock
    /\ \E id \in DOMAIN Registry : Registry[id].status = StatusPending
    /\ \E id \in DOMAIN Registry : Registry[id].status = StatusRefunded

\* the three queries
Queries == {"get_escrow", "get_escrows_by_maker", "get_stats"}

\* C29: every call of get_escrow, get_escrows_by_maker or get_stats leaves the
\* storage, hence the registry and the counter, unchanged; get_escrow returns
\* None for every id that is not a key of the registry, be it unknown or
\* issued earlier and since removed.
C29_QueriesReadOnly ==
    /\ [](\A id \in CallIds \cup {issued[i] : i \in DOMAIN issued} :
            id \notin DOMAIN Registry => get_escrow(storage, id) = None)
    /\ [][(result'.op \in Queries /\ ledger' = ledger) =>
             /\ storage' = storage
             /\ Registry' = Registry
             /\ Counter' = Counter]_vars

\* C29 witness: get_escrow was called on a registry of one record, an id
\* issued earlier being absent
C29_Witness ==
    /\ result.op = "get_escrow"
    /\ Cardinality(DOMAIN Registry) = 1
    /\ \E i \in DOMAIN issued : issued[i] \notin DOMAIN Registry

\* C30: in every reachable state no create_escrow call, whatever its
\* arguments and authorization, returns EscrowExists, and none has.
C30_NeverEscrowExists ==
    /\ result.res # "EscrowExists"
    /\ \A a \in CreateArgs, auths \in AnyAuths :
          create_escrow_outcome(storage, ledger, a.maker, a.amount, a.asset,
                                a.hash_lock, a.time_locks, auths).res
              # "EscrowExists"

\* C30 witness: after an initialize rewound the counter, create_escrow has
\* generated again the id it had issued before, and returned Ok
C30_Witness ==
    /\ result = [op |-> "create_escrow", res |-> "Ok"]
    /\ Len(issued) = 2
    /\ issued[1] = issued[2]

\* values of time_locks.refund, before, at and after every clock value
RefundValues == {0, 1, 9}

\* C31: create_escrow returns the same value, storage and events whatever
\* time_locks.refund is, so two executions that differ only in that field go
\* through the same states; and the maker can refund the new escrow at every
\* clock value t > time_locks.withdrawal, also when t <= time_locks.refund.
C31_RefundFieldIgnored ==
    /\ \A a \in CreateArgs, auths \in AnyAuths :
          LET out == create_escrow_outcome(storage, ledger, a.maker, a.amount,
                                           a.asset, a.hash_lock, a.time_locks, auths)
          IN  \A r \in RefundValues :
                  create_escrow_outcome(storage, ledger, a.maker, a.amount,
                                        a.asset, a.hash_lock,
                                        [a.time_locks EXCEPT !.refund = r], auths)
                      = out
    /\ \A a \in GoodCreateArgs, r \in RefundValues :
          LET out == create_escrow_outcome(storage, ledger, a.maker, a.amount,
                                           a.asset, a.hash_lock,
                                           [a.time_locks EXCEPT !.refund = r],
                                           {a.maker})
          IN  \A t \in LaterClockValues :
                  t > a.time_locks.withdrawal =>
                      refund_escrow_outcome(out.storage, at_time(t), out.id[1],
                                            {a.maker}).res = "Ok"

\* C31 witness: an escrow of alice, whose escrows are all created with
\* time_locks.refund = 9, has been refunded while the clock is below 9
C31_Witness ==
    /\ result = [op |-> "refund_escrow", res |-> "Ok"]
    /\ ledger.timestamp < 9
    /\ Cardinality(DOMAIN Registry) = 1
    /\ \A id \in DOMAIN Registry :
          Registry[id].maker = "alice" /\ Registry[id].status = StatusRefunded

\* C32: the record keeps no resolver (locking changes the status only); every
\* Pending escrow can be locked by every identity that authorizes the call, and
\* every Locked escrow can be completed before expiry by every identity that
\* authorizes the call and presents the correct secret, with the same storage
\* left whoever the identity is.
C32_ResolverNotBound ==
    \A id \in DOMAIN Registry :
        LET escrow == Registry[id]
        IN  /\ DOMAIN lock_update(escrow) = DOMAIN escrow
            /\ "resolver" \notin DOMAIN escrow
            /\ escrow.status = StatusPending =>
                  \A who \in Identities :
                      LET out == lock_escrow_outcome(storage, ledger, id, who, {who})
                      IN  /\ out.res = "Ok"
                          /\ get_escrow(out.storage, id) = Some(lock_update(escrow))
            /\ (escrow.status = StatusLocked
                   /\ ledger.timestamp <= escrow.time_lock) =>
                  \A who \in Identities, secret \in correct_secrets(escrow) :
                      LET out == complete_escrow_outcome(storage, ledger, id, secret,
                                                         who, {who})
                      IN  /\ out.res = "Ok"
                          /\ get_escrow(out.storage, id)
                                = Some(complete_update(escrow, secret))

\* C32 witness: a lock has just succeeded on an escrow that has not expired and
\* whose secret is among the candidates
C32_Witness ==
    /\ result = [op |-> "lock_escrow", res |-> "Ok"]
    /\ events # <<>>
    /\ Cardinality(DOMAIN Registry) = 1
    /\ \A id \in DOMAIN Registry :
          /\ Registry[id].status = StatusLocked
          /\ ledger.timestamp <= Registry[id].time_lock
          /\ correct_secrets(Registry[id]) # {}
          /\ events[1].data[2] = "bob"

\* the storage a first initialize leaves
initialized(st) == storage_set(storage_set(st, COUNTER, 0), ESCROWS, MapNew)

\* the registry and the counter as the contract reads them from storage st
view(st) == <<storage_get(st, ESCROWS, MapNew), storage_get(st, COUNTER, 0)>>

\* C33: while the contract has never been initialized (nothing is stored),
\* every operation returns the same value and events and leaves the same
\* registry and counter as on the freshly initialized contract: an authorized
\* create_escrow with amount > 0 succeeds and stores what it stores after
\* initialize, lock, complete and refund return EscrowNotFound when
\* authorized, and the queries return all zeros, None and the empty list.
\* Every create_escrow step taken from the uninitialized contract ends in a
\* storage that the same call on the initialized contract gives.
C33_UninitializedAsFresh ==
    /\ [](DOMAIN storage = {} =>
            LET fresh == initialized(storage)
            IN  /\ view(storage) = view(fresh)
                /\ get_stats(storage) = <<0, 0, 0, 0, 0>>
                /\ get_stats(fresh) = <<0, 0, 0, 0, 0>>
                /\ \A a \in CreateArgs, auths \in AnyAuths :
                      LET raw == create_escrow_outcome(storage, ledger, a.maker,
                                     a.amount, a.asset, a.hash_lock, a.time_locks,
                                     auths)
                          ini == create_escrow_outcome(fresh, ledger, a.maker,
                                     a.amount, a.asset, a.hash_lock, a.time_locks,
                                     auths)
                      IN  /\ raw.res = ini.res /\ raw.id = ini.id
                          /\ raw.events = ini.events
                          /\ view(raw.storage) = view(ini.storage)
                          /\ raw.res = "Ok" => raw.storage = ini.storage
                          /\ (a.amount > 0 /\ a.maker \in auths) => raw.res = "Ok"
                /\ \A id \in PossibleIds \cup {UnknownId}, who \in Identities,
                      secret \in Secrets :
                      /\ lock_escrow_outcome(storage, ledger, id, who, {who})
                            = Err(storage, "EscrowNotFound")
                      /\ lock_escrow_outcome(fresh, ledger, id, who, {who})
                            = Err(fresh, "EscrowNotFound")
                      /\ complete_escrow_outcome(storage, ledger, id, secret, who,
                                                 {who})
                            = Err(storage, "EscrowNotFound")
                      /\ complete_escrow_outcome(fresh, ledger, id, secret, who,
                                                 {who})
                            = Err(fresh, "EscrowNotFound")
                      /\ refund_escrow_outcome(storage, ledger, id, {who})
                            = Err(storage, "EscrowNotFound")
                      /\ refund_escrow_outcome(fresh, ledger, id, {who})
                            = Err(fresh, "EscrowNotFound")
                      /\ get_escrow(storage, id) = None
                      /\ get_escrow(fresh, id) = None
                /\ \A maker \in Makers :
                      /\ get_escrows_by_maker(storage, maker) = <<>>
                      /\ get_escrows_by_maker(fresh, maker) = <<>>)
    /\ [][(DOMAIN storage = {} /\ result'.op = "create_escrow"
              /\ result'.res = "Ok" /\ ledger' = ledger) =>
             storage' \in {apply_create(initialized(storage), a).storage :
                              a \in GoodCreateArgs}]_vars

\* C33 witness: on the contract that was never initialized, in a later
\* ledger, a refund has just returned EscrowNotFound
C33_Witness ==
    /\ DOMAIN storage = {}
    /\ result = [op |-> "refund_escrow", res |-> "EscrowNotFound"]
    /\ ledger.sequence = 1

\* h is in the image of the digest function
is_sha256_digest(h) == Len(h) >= 1 /\ h[1] = Len(h) - 1

\* hash locks that are the digest of nothing: of the wrong form, and empty
JunkHashLocks == {<<7, 7>>, <<>>}

\* C34: create_escrow accepts a hash lock that is the digest of no secret,
\* whatever its length; in every reachable state a record with such a hash
\* lock is not Completed and holds no secret, can be locked while Pending, is
\* refused by complete_escrow for every secret, resolver, authorization and
\* clock value, and can be refunded by its maker once now > time_lock while it
\* is Pending or Locked: the only terminal status it can reach is Refunded.
C34_UnopenableHashLock ==
    /\ \A h \in JunkHashLocks, a \in GoodCreateArgs :
          LET out == create_escrow_outcome(storage, ledger, a.maker, a.amount,
                                           a.asset, h, a.time_locks, {a.maker})
          IN  /\ ~is_sha256_digest(h)
              /\ out.res = "Ok"
              /\ get_escrow(out.storage, out.id[1])[1].hash_lock = h
    /\ \A id \in DOMAIN Registry :
          ~is_sha256_digest(Registry[id].hash_lock) =>
              /\ Registry[id].status # StatusCompleted
              /\ Registry[id].secret = None
              /\ Registry[id].status = StatusPending =>
                    \A who \in Resolvers :
                        lock_escrow_outcome(storage, ledger, id, who, {who}).res = "Ok"
              /\ \A t \in ClockValues :
                    /\ \A secret \in Secrets, who \in Resolvers, auths \in AnyAuths :
                          complete_escrow_outcome(storage, at_time(t), id, secret,
                                                  who, auths).res # "Ok"
                    /\ (Registry[id].status \in {StatusPending, StatusLocked}
                           /\ t > Registry[id].time_lock) =>
                          refund_escrow_outcome(storage, at_time(t), id,
                                                {Registry[id].maker}).res = "Ok"

\* C34 witness: an escrow whose hash lock is the digest of nothing was locked,
\* and a completion attempt on it has just been rejected with InvalidSecret
C34_Witness ==
    /\ result = [op |-> "complete_escrow", res |-> "InvalidSecret"]
    /\ Cardinality(DOMAIN Registry) = 1
    /\ \A id \in DOMAIN Registry :
          /\ ~is_sha256_digest(Registry[id].hash_lock)
          /\ Registry[id].status = StatusLocked

\* C35: in every reachable state every record has one of the four status
\* codes, and every Completed record holds a secret whose digest is its
\* hash_lock.
C35_CompletedHoldsPreimage ==
    \A id \in DOMAIN Registry :
        /\ Registry[id].status \in {0, 1, 2, 3}
        /\ Registry[id].status = 2 =>
              /\ is_some(Registry[id].secret)
              /\ compute_hash_lock(Registry[id].secret[1]) = Registry[id].hash_lock

\* C35 witness: a completion has just succeeded and the registry holds a
\* Completed record beside a record in another status
C35_Witness ==
    /\ result = [op |-> "complete_escrow", res |-> "Ok"]
    /\ \E id \in DOMAIN Registry : Registry[id].status = StatusCompleted
    /\ \E id \in DOMAIN Registry : Registry[id].status # StatusCompleted

\* the event an invocation publishes
Event(topic, data) == [topic |-> topic, data |-> data]

\* the topic each operation publishes and the status it stores
TopicOf ==
    [create_escrow |-> "created", lock_escrow |-> "locked",
     complete_escrow |-> "completed", refund_escrow |-> "refunded"]

StatusOf ==
    [created |-> StatusPending, locked |-> StatusLocked,
     completed |-> StatusCompleted, refunded |-> StatusRefunded]

\* C36: for every call in every reachable state, a create_escrow, lock_escrow,
\* complete_escrow or refund_escrow that returns Ok publishes exactly one
\* event, (created; id, maker, amount, asset), (locked; id, resolver),
\* (completed; id, resolver, secret) or (refunded; id, maker), and the storage
\* it leaves holds the record of that id in the matching status, the completed
\* event carrying the secret stored in the record; a call that does not return
\* Ok publishes nothing.  Hence after every call events were published exactly
\* when it was one of these four and returned Ok, and initialize and the
\* queries publish nothing.
C36_Events ==
    /\ \A a \in CreateArgs, auths \in AnyAuths :
          LET out == create_escrow_outcome(storage, ledger, a.maker, a.amount,
                                           a.asset, a.hash_lock, a.time_locks, auths)
          IN  IF out.res = "Ok"
              THEN /\ out.events = <<Event("created", <<out.id[1], a.maker, a.amount,
                                                        a.asset>>)>>
                   /\ get_escrow(out.storage, out.id[1])[1].status = StatusPending
              ELSE out.events = <<>>
    /\ \A id \in CallIds, who \in Resolvers, auths \in AnyAuths :
          /\ LET out == lock_escrow_outcome(storage, ledger, id, who, auths)
             IN  IF out.res = "Ok"
                 THEN /\ out.events = <<Event("locked", <<id, who>>)>>
                      /\ get_escrow(out.storage, id)[1].status = StatusLocked
                 ELSE out.events = <<>>
          /\ \A secret \in Secrets :
                LET out == complete_escrow_outcome(storage, ledger, id, secret, who,
                                                   auths)
                IN  IF out.res = "Ok"
                    THEN /\ out.events = <<Event("completed", <<id, who, secret>>)>>
                         /\ get_escrow(out.storage, id)[1].status = StatusCompleted
                         /\ get_escrow(out.storage, id)[1].secret = Some(secret)
                    ELSE out.events = <<>>
          /\ LET out == refund_escrow_outcome(storage, ledger, id, auths)
             IN  IF out.res = "Ok"
                 THEN /\ out.events = <<Event("refunded", <<id, Registry[id].maker>>)>>
                      /\ get_escrow(out.storage, id)[1].status = StatusRefunded
                 ELSE out.events = <<>>
    /\ IF result.op \in DOMAIN TopicOf /\ result.res = "Ok"
       THEN /\ Len(events) = 1
            /\ events[1].topic = TopicOf[result.op]
            /\ events[1].data[1] \in DOMAIN Registry
            /\ Registry[events[1].data[1]].status = StatusOf[events[1].topic]
            /\ events[1].topic = "completed" =>
                  Registry[events[1].data[1]].secret = Some(events[1].data[3])
       ELSE events = <<>>

\* C36 witness: a completion has just succeeded and its event is the one
\* published
C36_Witness ==
    /\ result = [op |-> "complete_escrow", res |-> "Ok"]
    /\ Len(events) = 1
    /\ events[1].topic = "completed"
    /\ events[1].data[3] = <<11>>

\* the 36 bytes hashed for an id: 8 of timestamp, 4 of sequence, 8 of counter
\* and 16 of amount, most significant byte first, for values below 256
id_bytes(timestamp, sequence, counter, amount) ==
    <<0, 0, 0, 0, 0, 0, 0, timestamp>> \o <<0, 0, 0, sequence>>
        \o <<0, 0, 0, 0, 0, 0, 0, counter>>
        \o <<0, 0, 0, 0, 0, 0, 0, 0, 0, 0, 0, 0, 0, 0, 0, amount>>

\* C37: generate_escrow_id stores counter + 1 and returns the digest of the
\* 36 bytes (timestamp, sequence, counter + 1, amount) of the current ledger,
\* whatever the maker and the asset; create_escrow returns that id whatever
\* the hash lock and the time locks, so two calls in the same state with the
\* same amount return the same id and calls with different amounts different
\* ids; right after initialize the counter hashed is 1.
C37_IdDerivation ==
    /\ \A maker \in Makers, asset \in Assets, amount \in {1, 2} :
          LET gen == generate_escrow_id(storage, ledger, maker, amount, asset)
          IN  /\ gen.id = sha256(id_bytes(ledger.timestamp, ledger.sequence,
                                          Counter + 1, amount))
              /\ storage_get(gen.storage, COUNTER, 0) = Counter + 1
              /\ storage_get(gen.storage, ESCROWS, MapNew) = Registry
    /\ \A a, b \in GoodCreateArgs :
          LET ida == apply_create(storage, a).id
              idb == apply_create(storage, b).id
          IN  /\ ida = Some(sha256(id_bytes(ledger.timestamp, ledger.sequence,
                                            Counter + 1, a.amount)))
              /\ (ida = idb) <=> (a.amount = b.amount)
    /\ \A a \in GoodCreateArgs :
          apply_create(initialized(storage), a).id
              = Some(sha256(id_bytes(ledger.timestamp, ledger.sequence, 1, a.amount)))

\* C37 witness: after initialize, in the second ledger, two escrows of the same
\* amount and different makers were created, with counter values 1 and 2
C37_Witness ==
    /\ result = [op |-> "create_escrow", res |-> "Ok"]
    /\ ledger = [timestamp |-> 1, sequence |-> 1]
    /\ Counter = 2
    /\ DOMAIN Registry = {sha256(id_bytes(1, 1, c, 1)) : c \in {1, 2}}
    /\ {Registry[id].maker : id \in DOMAIN Registry} = Makers

====
